---- MODULE Spec2Model ----
(***************************************************************************)
(* Model of src/app.py: a Flask handler that classifies every row of an    *)
(* uploaded CSV, writes the results to a fixed local CSV, uploads it to    *)
(* S3, reads the CSV back with pandas and writes three chart images.       *)
(*                                                                         *)
(* A text is a sequence of one-character strings, so that csv parsing,     *)
(* splitting and joining are computed rather than assumed.  A sentiment    *)
(* label is a one-element sequence holding the label's name.               *)
(***************************************************************************)
EXTENDS Integers, Sequences, FiniteSets, TLC

(* ------------------------------ bounds -------------------------------- *)

\* longest uploaded file, in characters, of the request specifications
MaxFileLen == 4
\* most records of a results CSV in the visualisation specification
MaxReviews == 2

\* requests in flight on the shared process, in arrival order
Req == {1, 2}

\* characters of an uploaded file
FileChars == {"a", " ", ",", "\n"}

RECURSIVE SeqsUpTo(_, _)
SeqsUpTo(S, n) ==
    IF n = 0 THEN {<<>>}
    ELSE LET shorter == SeqsUpTo(S, n - 1)
         IN  shorter \cup {Append(s, c) : s \in {t \in shorter : Len(t) = n - 1}, c \in S}

\* the sentiment labels the text-analysis service returns
Labels == {<<"POSITIVE">>, <<"NEGATIVE">>, <<"NEUTRAL">>, <<"MIXED">>}

(* ----------------------- strings and csv parsing ---------------------- *)

IndexOf(s, c) ==
    IF \E i \in DOMAIN s : s[i] = c
    THEN CHOOSE i \in DOMAIN s : s[i] = c /\ \A j \in 1..(i - 1) : s[j] # c
    ELSE 0

\* str.split(sep): the segments between separators, empty ones kept
RECURSIVE SplitOn(_, _)
SplitOn(s, c) ==
    LET i == IndexOf(s, c)
    IN  IF i = 0 THEN <<s>>
        ELSE <<SubSeq(s, 1, i - 1)>> \o SplitOn(SubSeq(s, i + 1, Len(s)), c)

\* str.splitlines(): no line for the text after a final line break
SplitLines(s) ==
    LET parts == SplitOn(s, "\n")
    IN  IF parts[Len(parts)] = <<>> THEN SubSeq(parts, 1, Len(parts) - 1) ELSE parts

\* csv.reader over the lines: an empty line is a row of zero fields
CsvReader(lines) ==
    [i \in DOMAIN lines |-> IF lines[i] = <<>> THEN <<>> ELSE SplitOn(lines[i], ",")]

\* file.read().decode(...).splitlines() handed to csv.reader
ParseUpload(content) == CsvReader(SplitLines(content))

\* str.split(): the maximal runs of non-whitespace characters
SplitWords(s) == SelectSeq(SplitOn(s, " "), LAMBDA t : t # <<>>)

\* ' '.join(texts)
RECURSIVE JoinSpace(_)
JoinSpace(texts) ==
    IF texts = <<>> THEN <<>>
    ELSE IF Len(texts) = 1 THEN texts[1]
    ELSE texts[1] \o <<" ">> \o JoinSpace(Tail(texts))

\* str.endswith(suffix)
EndsWith(s, suffix) ==
    /\ Len(s) >= Len(suffix)
    /\ SubSeq(s, Len(s) - Len(suffix) + 1, Len(s)) = suffix

DotCsv == <<".", "c", "s", "v">>

\* the name ends in csv, with or without the dot
EndsInCsv(name) == EndsWith(name, <<"c", "s", "v">>)

\* file.filename.endswith('.csv')
IsCsvName(name) == EndsWith(name, DotCsv)

(* ------------------------------- pandas ------------------------------- *)

Range(f) == {f[i] : i \in DOMAIN f}

Min(a, b) == IF a < b THEN a ELSE b

\* a cell read_csv turned into a missing value (float nan)
NaN == <<"<nan>">>

\* strings read_csv takes for a missing value (of pandas' list, those over
\* the characters used here)
NaValues == {<<>>, <<"N", "A">>}

Digits == {"0", "1", "2", "3", "4", "5", "6", "7", "8", "9"}

\* the text without leading and trailing blanks
RECURSIVE Strip(_)
Strip(s) ==
    IF s = <<>> THEN s
    ELSE IF s[1] = " " THEN Strip(Tail(s))
    ELSE IF s[Len(s)] = " " THEN Strip(SubSeq(s, 1, Len(s) - 1))
    ELSE s

\* read_csv's integer parse of a field
IsNumeric(s) == Strip(s) # <<>> /\ \A i \in DOMAIN Strip(s) : Strip(s)[i] \in Digits

\* a cell read_csv converted to a number
Num(s) == <<"<int>">> \o Strip(s)

\* a cell that is still a Python str
IsStr(cell) == cell # NaN /\ (cell = <<>> \/ cell[1] # "<int>")

\* pd.DataFrame(results): the columns are the keys of the records, so a
\* frame built from no record has no column at all
DataFrame(results) ==
    [columns |-> IF results = <<>> THEN <<>> ELSE <<"Review", "Sentiment">>,
     data    |-> [i \in DOMAIN results |-> <<results[i].Review, results[i].Sentiment>>]]

\* the header line df.to_csv(index=False) writes
CsvHeader(df) == df.columns

\* df.to_csv(path, index=False): the header line and one line per row
ToCsv(df) == [header |-> CsvHeader(df), lines |-> df.data]

\* the values of column k as read_csv types them
ReadColumn(lines, k) ==
    LET raw     == [i \in DOMAIN lines |-> lines[i][k]]
        present == {i \in DOMAIN raw : raw[i] \notin NaValues}
        numeric == present # {} /\ \A i \in present : IsNumeric(raw[i])
    IN  [i \in DOMAIN raw |->
            IF raw[i] \in NaValues THEN NaN
            ELSE IF numeric THEN Num(raw[i])
            ELSE raw[i]]

\* pd.read_csv(path) of a file that has a header line
ReadCsv(file) ==
    [columns |-> file.header,
     data    |-> [i \in DOMAIN file.lines |->
                    [k \in DOMAIN file.header |-> ReadColumn(file.lines, k)[i]]]]

\* df[name].tolist()
Column(df, name) ==
    LET k == CHOOSE j \in DOMAIN df.columns : df.columns[j] = name
    IN  [i \in DOMAIN df.data |-> df.data[i][k]]

\* the distinct values of a sequence, in order of first occurrence
RECURSIVE Distinct(_)
Distinct(s) ==
    IF s = <<>> THEN <<>>
    ELSE LET front == Distinct(SubSeq(s, 1, Len(s) - 1))
         IN  IF s[Len(s)] \in Range(front) THEN front ELSE Append(front, s[Len(s)])

Occurrences(s, v) == Cardinality({i \in DOMAIN s : s[i] = v})

\* collections.Counter(tokens): one entry per distinct token, in insertion order
Counter(tokens) ==
    LET keys == Distinct(tokens)
    IN  [i \in DOMAIN keys |-> [key |-> keys[i], n |-> Occurrences(tokens, keys[i])]]

\* sorted(items, key=count, reverse=True): a stable sort, equal counts keep
\* their order
RECURSIVE SortByCount(_)
SortByCount(items) ==
    IF items = <<>> THEN <<>>
    ELSE LET i == CHOOSE j \in DOMAIN items :
                      /\ \A k \in DOMAIN items : items[k].n <= items[j].n
                      /\ \A k \in 1..(j - 1) : items[k].n < items[j].n
         IN  <<items[i]>> \o
             SortByCount(SubSeq(items, 1, i - 1) \o SubSeq(items, i + 1, Len(items)))

\* the number of words of the word-frequency chart
TopWords == 10

\* every word, most frequent first
AllWordsByCount(counter, n) == SortByCount(counter)

\* Counter.most_common(n)
MostCommon(counter, n) == SubSeq(SortByCount(counter), 1, Min(n, Len(counter)))

\* the distinct values, each counted once
DistinctValues(col) ==
    [i \in DOMAIN Distinct(col) |-> [key |-> Distinct(col)[i], n |-> 1]]

\* Series.value_counts(): missing values dropped, most frequent first
ValueCounts(col) == SortByCount(Counter(SelectSeq(col, LAMBDA c : c # NaN)))

Keys(counts) == [i \in DOMAIN counts |-> counts[i].key]
Counts(counts) == [i \in DOMAIN counts |-> counts[i].n]

\* sns.barplot(x=value_counts().index, y=value_counts().values)
BarChart(df) ==
    [x |-> Keys(ValueCounts(Column(df, "Sentiment"))),
     y |-> Counts(ValueCounts(Column(df, "Sentiment")))]

\* plt.pie(value_counts(), labels=value_counts().index)
PieChart(df) ==
    [x      |-> Counts(ValueCounts(Column(df, "Sentiment"))),
     labels |-> Keys(ValueCounts(Column(df, "Sentiment")))]

\* the ten most common words of all reviews joined by blanks
WordChart(df) ==
    LET most_common_words ==
            MostCommon(Counter(SplitWords(JoinSpace(Column(df, "Review")))), TopWords)
    IN  [x |-> Keys(most_common_words), y |-> Counts(most_common_words)]

NoCharts == <<>>

\* visualize_sentiment_trends on the content of the file at csv_file_path:
\* the error raised, or the three image streams returned
VisualizeFile(file) ==
    IF file.header = <<>>
    THEN [err |-> "EmptyDataError", charts |-> NoCharts]
    ELSE LET df == ReadCsv(file)
         IN  IF "Sentiment" \notin Range(df.columns)
             THEN [err |-> "ValueError", charts |-> NoCharts]
             ELSE IF "Review" \notin Range(df.columns)
             THEN [err |-> "KeyError", charts |-> NoCharts]
             ELSE IF \E i \in DOMAIN df.data : ~IsStr(Column(df, "Review")[i])
             THEN [err |-> "TypeError", charts |-> NoCharts]
             ELSE [err    |-> "none",
                   charts |-> <<[bar  |-> BarChart(df),
                                 pie  |-> PieChart(df),
                                 word |-> WordChart(df)]>>]

(* ------------------------------- state -------------------------------- *)

VARIABLES
    pc,          \* where each request's handler stands
    req,         \* the HTTP request: its method and its 'file' parts
    rows,        \* csv_reader: the rows of the upload
    idx,         \* rows the for loop has consumed
    results,     \* process_csv's results list
    calls,       \* the texts analyze_with_comprehend was invoked with, in order
    svcFailed,   \* a classifier operation raised during this request
    uploads,     \* calls of s3_client.upload_file by this request
    retPath,     \* the path process_csv returned, <<>> before it returns
    charts,      \* the image streams visualize_sentiment_trends returned
    error,       \* the exception that escaped the handler
    response,    \* what the handler returned
    fs,          \* the files of the temporary directory, by path
    remote,      \* the objects of the bucket, by key
    static,      \* the files of the static directory, by name
    snap,        \* history: fs, remote and static when the request arrived
    lastWriter,  \* history: the request whose to_csv ran last (0: an earlier one)
    readFrom,    \* history: <<lastWriter>> when the request's read_csv ran
    imgBy        \* history: the request that wrote each static image

reqVars == <<pc, req, rows, idx, results, calls, svcFailed, uploads, retPath,
             charts, error, response, snap, readFrom>>
stores == <<fs, remote, static>>
vars == <<pc, req, rows, idx, results, calls, svcFailed, uploads, retPath,
          charts, error, response, fs, remote, static, snap, lastWriter,
          readFrom, imgBy>>

NoFiles == [p \in {} |-> <<>>]

Write(f, k, v) == [x \in DOMAIN f \cup {k} |-> IF x = k THEN v ELSE f[x]]

\* a file name of the request's own
CsvFilePathOfRequest(r) == <<"sentiment_analysis_results.csv", ToString(r)>>

\* os.path.join(tempfile.gettempdir(), 'sentiment_analysis_results.csv')
CsvFilePath(r) == <<"sentiment_analysis_results.csv">>

\* os.path.basename(csv_file_path)
S3Key(path) == <<path[1]>>

BarImage == "sentiment_bar.png"
PieImage == "sentiment_pie.png"
WordImage == "word_frequency.png"

ImageUrls == <<"/static/sentiment_bar.png", "/static/sentiment_pie.png",
               "/static/word_frequency.png">>

NoResponse == [status |-> 0, body |-> "", images |-> <<>>]
FormPage == [status |-> 200, body |-> "index.html", images |-> <<>>]
ChartsPage == [status |-> 200, body |-> "index.html", images |-> ImageUrls]
BadRequest(msg) == [status |-> 400, body |-> msg, images |-> <<>>]
ServerError == [status |-> 500, body |-> "Internal Server Error", images |-> <<>>]

\* read_csv has not run in this request
NotRead == <<>>

(* ------------------------------- inputs ------------------------------- *)

Files == SeqsUpTo(FileChars, MaxFileLen)

FileNames == {<<>>, <<"a", ".", "c", "s", "v">>, <<".", "c", "s", "v">>,
              <<"a", ".", "t", "x", "t">>, <<"a", ".", "C", "S", "V">>,
              <<"c", "s", "v">>}

\* request.files: no 'file' part, or one with a file name and a content
Parts(names, contents) ==
    {<<>>} \cup {<<[filename |-> n, content |-> c]>> : n \in names, c \in contents}

AnyRequest ==
    [method : {"GET", "POST"}, files : Parts(FileNames, Files)]

\* the uploads of the two-request specification
ConcFiles == {<<>>, <<"a">>, <<"\n", " ">>}

CsvPosts ==
    [method : {"POST"}, files : Parts({<<"a", ".", "c", "s", "v">>}, ConcFiles)]

Record(text, sentiment) == [Review |-> text, Sentiment |-> sentiment]

\* what an earlier, finished request that classified `rs` left behind
LeftBy(rs, uploaded) ==
    LET file == ToCsv(DataFrame(rs))
        out  == VisualizeFile(file)
        path == CsvFilePath(0)
    IN  [fs     |-> Write(NoFiles, path, file),
         remote |-> IF uploaded THEN Write(NoFiles, S3Key(path), file) ELSE NoFiles,
         static |-> IF out.err = "none"
                    THEN Write(Write(Write(NoFiles, BarImage, out.charts[1].bar),
                                     PieImage, out.charts[1].pie),
                               WordImage, out.charts[1].word)
                    ELSE NoFiles]

Fresh == [fs |-> NoFiles, remote |-> NoFiles, static |-> NoFiles]

EarlierResults ==
    {<<Record(<<"a">>, <<"POSITIVE">>)>>,
     <<Record(<<"a", " ", "b">>, <<"NEGATIVE">>), Record(<<"b">>, <<"NEUTRAL">>)>>}

\* the stores a request can find: a fresh deployment, or what an earlier
\* request left
EarlierStores ==
    {Fresh} \cup {LeftBy(rs, up) : rs \in EarlierResults, up \in BOOLEAN}

(* -------------------------------- Init -------------------------------- *)

IdleRequests ==
    /\ pc = [r \in Req |-> "idle"]
    /\ req = [r \in Req |-> [method |-> "GET", files |-> <<>>]]
    /\ rows = [r \in Req |-> <<>>]
    /\ idx = [r \in Req |-> 0]
    /\ results = [r \in Req |-> <<>>]
    /\ calls = [r \in Req |-> <<>>]
    /\ svcFailed = [r \in Req |-> FALSE]
    /\ uploads = [r \in Req |-> 0]
    /\ retPath = [r \in Req |-> <<>>]
    /\ charts = [r \in Req |-> NoCharts]
    /\ error = [r \in Req |-> "none"]
    /\ response = [r \in Req |-> NoResponse]
    /\ snap = [r \in Req |-> Fresh]
    /\ readFrom = [r \in Req |-> NotRead]
    /\ lastWriter = 0

StoresAre(s) ==
    /\ fs = s.fs
    /\ remote = s.remote
    /\ static = s.static
    /\ imgBy = [n \in DOMAIN s.static |-> 0]

Init == IdleRequests /\ \E s \in EarlierStores : StoresAre(s)

ConcInit == IdleRequests /\ StoresAre(Fresh)

(* ------------------------------ upload_file --------------------------- *)

\* a request arrives; requests are numbered in arrival order
Begin(r, requests) ==
    /\ pc[r] = "idle"
    /\ \A q \in Req : q < r => pc[q] # "idle"
    /\ \E rq \in requests : req' = [req EXCEPT ![r] = rq]
    /\ pc' = [pc EXCEPT ![r] = "route"]
    /\ snap' = [snap EXCEPT ![r] = [fs |-> fs, remote |-> remote, static |-> static]]
    /\ UNCHANGED <<rows, idx, results, calls, svcFailed, uploads, retPath, charts,
                   error, response, fs, remote, static, lastWriter, readFrom, imgBy>>

\* one request at a time
SeqBegin(r) == (\A q \in Req : pc[q] = "idle") /\ Begin(r, AnyRequest)

\* requests that overlap
ConcBegin(r) == Begin(r, CsvPosts)

\* the handler returns `resp` without running the pipeline
Return(r, resp) ==
    /\ pc' = [pc EXCEPT ![r] = "done"]
    /\ response' = [response EXCEPT ![r] = resp]
    /\ UNCHANGED <<req, rows, idx, results, calls, svcFailed, uploads, retPath,
                   charts, error, fs, remote, static, snap, lastWriter, readFrom,
                   imgBy>>

FileName(r) == req[r].files[1].filename

\* request.method is not POST
GetForm(r) ==
    /\ pc[r] = "route"
    /\ req[r].method # "POST"
    /\ Return(r, FormPage)

\* 'file' not in request.files
NoFilePart(r) ==
    /\ pc[r] = "route"
    /\ req[r].method = "POST"
    /\ req[r].files = <<>>
    /\ Return(r, BadRequest("No file part"))

\* file.filename == ''
NoSelectedFile(r) ==
    /\ pc[r] = "route"
    /\ req[r].method = "POST"
    /\ req[r].files # <<>>
    /\ FileName(r) = <<>>
    /\ Return(r, BadRequest("No selected file"))

\* the file name does not end in .csv: the bare form
NotCsv(r) ==
    /\ pc[r] = "route"
    /\ req[r].method = "POST"
    /\ req[r].files # <<>>
    /\ FileName(r) # <<>>
    /\ ~IsCsvName(FileName(r))
    /\ Return(r, FormPage)

(* ------------------------------ process_csv --------------------------- *)

\* process_csv is entered: the upload is decoded and handed to csv.reader
StartProcessCsv(r) ==
    /\ pc[r] = "route"
    /\ req[r].method = "POST"
    /\ req[r].files # <<>>
    /\ FileName(r) # <<>>
    /\ IsCsvName(FileName(r))
    /\ rows' = [rows EXCEPT ![r] = ParseUpload(req[r].files[1].content)]
    /\ idx' = [idx EXCEPT ![r] = 0]
    /\ results' = [results EXCEPT ![r] = <<>>]
    /\ pc' = [pc EXCEPT ![r] = "rows"]
    /\ UNCHANGED <<req, calls, svcFailed, uploads, retPath, charts, error, response,
                   fs, remote, static, snap, lastWriter, readFrom, imgBy>>

\* a row is analysed only if its first field is not empty
RowHasText(row) == Len(row) > 0 /\ row[1] # <<>>

\* if len(row) > 0
RowIsAnalysed(row) == Len(row) > 0

\* the record is put in front of the list
PrependResult(rs, text, sentiment) == <<Record(text, sentiment)>> \o rs

\* results.append({'Review': text, 'Sentiment': sentiment})
AppendResult(rs, text, sentiment) == Append(rs, Record(text, sentiment))

\* one invocation of analyze_with_comprehend: its text, and the sentiment
\* label it returned or Raised
Call(text, answer) == [text |-> text, answer |-> answer]

Raised == <<"<raised>">>

NextRow(r) == rows[r][idx[r] + 1]

InLoop(r) == pc[r] = "rows" /\ idx[r] < Len(rows[r])

\* a row of zero fields is passed over
SkipRow(r) ==
    /\ InLoop(r)
    /\ ~RowIsAnalysed(NextRow(r))
    /\ idx' = [idx EXCEPT ![r] = @ + 1]
    /\ UNCHANGED <<pc, req, rows, results, calls, svcFailed, uploads, retPath,
                   charts, error, response, fs, remote, static, snap, lastWriter,
                   readFrom, imgBy>>

\* both classifier operations answer; the sentiment label is kept
ClassifyRow(r) ==
    /\ InLoop(r)
    /\ RowIsAnalysed(NextRow(r))
    /\ \E sentiment \in Labels :
           /\ calls' = [calls EXCEPT ![r] = Append(@, Call(NextRow(r)[1], sentiment))]
           /\ results' = [results EXCEPT ![r] = AppendResult(@, NextRow(r)[1], sentiment)]
    /\ idx' = [idx EXCEPT ![r] = @ + 1]
    /\ UNCHANGED <<pc, req, rows, svcFailed, uploads, retPath, charts, error,
                   response, fs, remote, static, snap, lastWriter, readFrom, imgBy>>

\* the exception is caught, the row is dropped and the loop goes on
ClassifierErrorSkipped(r, operation) ==
    /\ idx' = [idx EXCEPT ![r] = @ + 1]
    /\ UNCHANGED <<pc, error, response, results>>

\* an exception of a classifier operation is not caught anywhere: it leaves
\* analyze_with_comprehend, process_csv and upload_file
ClassifierRaised(r, operation) ==
    /\ pc' = [pc EXCEPT ![r] = "failed"]
    /\ error' = [error EXCEPT ![r] = operation]
    /\ response' = [response EXCEPT ![r] = ServerError]
    /\ UNCHANGED <<idx, results>>

ClassifierFails(r, operation) ==
    /\ InLoop(r)
    /\ RowIsAnalysed(NextRow(r))
    /\ calls' = [calls EXCEPT ![r] = Append(@, Call(NextRow(r)[1], Raised))]
    /\ svcFailed' = [svcFailed EXCEPT ![r] = TRUE]
    /\ ClassifierRaised(r, operation)
    /\ UNCHANGED <<req, rows, uploads, retPath, charts, fs, remote, static, snap,
                   lastWriter, readFrom, imgBy>>

\* comprehend_client.detect_sentiment raises
SentimentFails(r) == ClassifierFails(r, "detect_sentiment")

\* comprehend_client.detect_key_phrases raises
KeyPhrasesFail(r) == ClassifierFails(r, "detect_key_phrases")

\* the loop is over: pd.DataFrame(results).to_csv(csv_file_path, index=False)
WriteCsv(r) ==
    /\ pc[r] = "rows"
    /\ idx[r] = Len(rows[r])
    /\ fs' = Write(fs, CsvFilePath(r), ToCsv(DataFrame(results[r])))
    /\ lastWriter' = r
    /\ pc' = [pc EXCEPT ![r] = "upload"]
    /\ UNCHANGED <<req, rows, idx, results, calls, svcFailed, uploads, retPath,
                   charts, error, response, remote, static, snap, readFrom, imgBy>>

\* upload_local_file_to_s3 returns, True or False, and process_csv returns
\* the path
Uploaded(r) ==
    /\ uploads' = [uploads EXCEPT ![r] = @ + 1]
    /\ retPath' = [retPath EXCEPT ![r] = CsvFilePath(r)]
    /\ pc' = [pc EXCEPT ![r] = "viz"]
    /\ UNCHANGED <<req, rows, idx, results, calls, svcFailed, charts, error,
                   response, fs, static, snap, lastWriter, readFrom, imgBy>>

\* s3_client.upload_file succeeds
UploadOk(r) ==
    /\ pc[r] = "upload"
    /\ remote' = Write(remote, S3Key(CsvFilePath(r)), fs[CsvFilePath(r)])
    /\ Uploaded(r)

\* s3_client.upload_file raises; the exception is caught and printed
UploadFails(r) ==
    /\ pc[r] = "upload"
    /\ remote' = remote
    /\ Uploaded(r)

(* ----------------------- visualize_sentiment_trends -------------------- *)

BlankChart == [x |-> <<>>, y |-> <<>>]

\* the exception is caught and logged, and blank charts are saved
VisualizeErrorIgnored(r, err) ==
    /\ pc' = [pc EXCEPT ![r] = "bar"]
    /\ charts' = [charts EXCEPT ![r] = <<[bar |-> BlankChart, pie |-> BlankChart,
                                          word |-> BlankChart]>>]
    /\ UNCHANGED <<error, response>>

\* an exception of visualize_sentiment_trends is not caught: it leaves
\* upload_file before any image is written
VisualizeRaised(r, err) ==
    /\ pc' = [pc EXCEPT ![r] = "failed"]
    /\ error' = [error EXCEPT ![r] = err]
    /\ response' = [response EXCEPT ![r] = ServerError]
    /\ charts' = charts

\* the CSV at the returned path is read and the three charts are drawn
Visualize(r) ==
    /\ pc[r] = "viz"
    /\ readFrom' = [readFrom EXCEPT ![r] = <<lastWriter>>]
    /\ LET out == VisualizeFile(fs[retPath[r]])
       IN  IF out.err = "none"
           THEN /\ charts' = [charts EXCEPT ![r] = out.charts]
                /\ pc' = [pc EXCEPT ![r] = "bar"]
                /\ UNCHANGED <<error, response>>
           ELSE VisualizeRaised(r, out.err)
    /\ UNCHANGED <<req, rows, idx, results, calls, svcFailed, uploads, retPath,
                   fs, remote, static, snap, lastWriter, imgBy>>

SaveImage(r, name, image, next) ==
    /\ static' = Write(static, name, image)
    /\ imgBy' = Write(imgBy, name, r)
    /\ pc' = [pc EXCEPT ![r] = next]
    /\ UNCHANGED <<req, rows, idx, results, calls, svcFailed, uploads, retPath,
                   charts, error, fs, remote, snap, lastWriter, readFrom>>

\* static/sentiment_bar.png is written
SaveBar(r) ==
    /\ pc[r] = "bar"
    /\ SaveImage(r, BarImage, charts[r][1].bar, "pie")
    /\ UNCHANGED response

\* static/sentiment_pie.png is written
SavePie(r) ==
    /\ pc[r] = "pie"
    /\ SaveImage(r, PieImage, charts[r][1].pie, "word")
    /\ UNCHANGED response

\* static/word_frequency.png is written and the page is rendered with the
\* three image URLs
SaveWord(r) ==
    /\ pc[r] = "word"
    /\ SaveImage(r, WordImage, charts[r][1].word, "done")
    /\ response' = [response EXCEPT ![r] = ChartsPage]

(* --------------------------- specifications --------------------------- *)

Pipeline(r) ==
    \/ StartProcessCsv(r)
    \/ SkipRow(r)
    \/ ClassifyRow(r)
    \/ SentimentFails(r)
    \/ KeyPhrasesFail(r)
    \/ WriteCsv(r)
    \/ UploadOk(r)
    \/ UploadFails(r)
    \/ Visualize(r)
    \/ SaveBar(r)
    \/ SavePie(r)
    \/ SaveWord(r)

Next ==
    \E r \in Req :
        \/ SeqBegin(r)
        \/ GetForm(r)
        \/ NoFilePart(r)
        \/ NoSelectedFile(r)
        \/ NotCsv(r)
        \/ Pipeline(r)

\* one request, on stores an earlier request may have written
Spec == Init /\ [][Next]_vars

ConcNext == \E r \in Req : ConcBegin(r) \/ Pipeline(r)

\* two requests in flight on the shared process
ConcSpec == ConcInit /\ [][ConcNext]_vars

(* ------------------- the visualisation on its own --------------------- *)

\* review texts of the results CSVs the visualisation is run on
ReviewTexts ==
    {<<>>,
     <<"a", " ", "a", " ", "b">>,
     <<"b", " ", " ", "c">>,
     <<"c", " ", "d", " ", "e", " ", "f", " ", "g", " ", "h">>,
     <<"h", " ", "i", " ", "j", " ", "k", " ", "l", " ", "m">>,
     <<"7">>,
     <<"N", "A">>}

\* an upload whose rows hold the texts in their first of two fields
RECURSIVE UploadOf(_)
UploadOf(texts) ==
    IF texts = <<>> THEN <<>>
    ELSE texts[1] \o <<",">> \o
         (IF Len(texts) = 1 THEN <<>> ELSE <<"\n">> \o UploadOf(Tail(texts)))

\* request 1 has classified an upload of up to MaxReviews rows and
\* process_csv has returned
VizInit ==
    \E texts \in SeqsUpTo(ReviewTexts, MaxReviews) :
    \E sentiments \in [DOMAIN texts -> Labels] :
    \E uploaded \in BOOLEAN :
        LET upload == [filename |-> <<"a", ".", "c", "s", "v">>, content |-> UploadOf(texts)]
            rs     == [i \in DOMAIN texts |-> Record(ParseUpload(upload.content)[i][1],
                                                     sentiments[i])]
            left   == LeftBy(rs, uploaded)
        IN  /\ pc = [r \in Req |-> IF r = 1 THEN "viz" ELSE "idle"]
            /\ req = [r \in Req |-> IF r = 1 THEN [method |-> "POST", files |-> <<upload>>]
                                     ELSE [method |-> "GET", files |-> <<>>]]
            /\ rows = [r \in Req |-> IF r = 1 THEN ParseUpload(upload.content) ELSE <<>>]
            /\ idx = [r \in Req |-> IF r = 1 THEN Len(texts) ELSE 0]
            /\ results = [r \in Req |-> IF r = 1 THEN rs ELSE <<>>]
            /\ calls = [r \in Req |-> IF r = 1 THEN [i \in DOMAIN texts |-> Call(texts[i], sentiments[i])]
                                       ELSE <<>>]
            /\ svcFailed = [r \in Req |-> FALSE]
            /\ uploads = [r \in Req |-> IF r = 1 THEN 1 ELSE 0]
            /\ retPath = [r \in Req |-> IF r = 1 THEN CsvFilePath(r) ELSE <<>>]
            /\ charts = [r \in Req |-> NoCharts]
            /\ error = [r \in Req |-> "none"]
            /\ response = [r \in Req |-> NoResponse]
            /\ snap = [r \in Req |-> Fresh]
            /\ readFrom = [r \in Req |-> NotRead]
            /\ lastWriter = 1
            /\ fs = left.fs
            /\ remote = left.remote
            /\ static = NoFiles
            /\ imgBy = NoFiles

VizNext == \E r \in Req : Visualize(r) \/ SaveBar(r) \/ SavePie(r) \/ SaveWord(r)

\* visualize_sentiment_trends and the saving of its images, on every results
\* CSV of the bound
VizSpec == VizInit /\ [][VizNext]_vars

(* ------------------------------- claims ------------------------------- *)

\* the request has entered process_csv
InPipeline(r) ==
    \/ pc[r] \in {"rows", "upload", "viz", "bar", "pie", "word", "failed"}
    \/ pc[r] = "done" /\ retPath[r] # <<>>

\* the rows the for loop has consumed
Consumed(r) == SubSeq(rows[r], 1, idx[r])

HasField(row) == Len(row) >= 1

FirstFields(rs) == [i \in DOMAIN rs |-> rs[i][1]]

StoresUnchanged(r) ==
    /\ fs = snap[r].fs
    /\ remote = snap[r].remote
    /\ static = snap[r].static

\* C1: while no classifier call has failed, the results list holds exactly
\* one record per consumed row that has at least one field, in row order:
\* the i-th record is the first field of the i-th such row with the label
\* the classifier returned for it; so it does when process_csv has finished
\* the loop.
C1_OneRecordPerRowInOrder ==
    \A r \in Req :
        (InPipeline(r) /\ ~svcFailed[r]) =>
            LET kept == SelectSeq(Consumed(r), HasField)
            IN  /\ Len(results[r]) = Len(kept)
                /\ Len(calls[r]) = Len(kept)
                /\ \A i \in DOMAIN kept :
                       /\ results[r][i].Review = kept[i][1]
                       /\ calls[r][i].text = kept[i][1]
                       /\ results[r][i].Sentiment = calls[r][i].answer

\* C1: a finished request whose upload had three rows, one of them without
\* fields, and whose two records differ
C1_Witness ==
    \E r \in Req :
        /\ pc[r] = "done"
        /\ Len(rows[r]) = 3
        /\ \E i \in DOMAIN rows[r] : rows[r][i] = <<>>
        /\ Len(results[r]) = 2
        /\ results[r][1].Review # results[r][2].Review
        /\ results[r][1].Sentiment # results[r][2].Sentiment

\* C2: once a classifier operation has raised, the request has failed with
\* the exception, and the results CSV, the bucket and the static images are
\* what they were when the request arrived; no upload was attempted.
C2_ClassifierFailureAborts ==
    \A r \in Req :
        svcFailed[r] =>
            /\ pc[r] = "failed"
            /\ error[r] \in {"detect_sentiment", "detect_key_phrases"}
            /\ response[r] = ServerError
            /\ uploads[r] = 0
            /\ retPath[r] = <<>>
            /\ StoresUnchanged(r)

\* C2: the second row's classification failed after the first row's record
\* was obtained, on stores an earlier request had written
C2_Witness ==
    \E r \in Req :
        /\ svcFailed[r]
        /\ Len(results[r]) = 1
        /\ snap[r] # Fresh
        /\ DOMAIN static # {}

\* C10 as stated: the classifier adapter is invoked exactly for the consumed
\* rows whose first column is not the empty string.
C10_Original ==
    \A r \in Req :
        (InPipeline(r) /\ ~svcFailed[r]) =>
            LET kept == SelectSeq(Consumed(r), LAMBDA row : Len(row) >= 1 /\ row[1] # <<>>)
            IN  /\ Len(results[r]) = Len(kept)
                /\ [i \in DOMAIN calls[r] |-> calls[r][i].text] = FirstFields(kept)

\* C10 amended: the classifier adapter is invoked exactly once for each
\* consumed row that has at least one field, the empty string as first field
\* included, and for no row of zero fields; at every point of the iteration
\* the number of results obtained is the number of such rows consumed, and a
\* call that raised is the call for the next row, which ends the iteration.
C10_OneCallPerRowWithFields ==
    \A r \in Req :
        InPipeline(r) =>
            LET kept  == SelectSeq(Consumed(r), HasField)
                texts == [i \in DOMAIN calls[r] |-> calls[r][i].text]
            IN  /\ Len(results[r]) = Len(kept)
                /\ Len(SelectSeq(calls[r], LAMBDA c : c.answer # Raised)) = Len(kept)
                /\ IF svcFailed[r]
                   THEN /\ pc[r] = "failed"
                        /\ texts = Append(FirstFields(kept), rows[r][idx[r] + 1][1])
                   ELSE texts = FirstFields(kept)

\* C10: a row whose first field is the empty string and which has a second
\* field was classified and gave a record
C10_Witness ==
    \E r \in Req :
        /\ InPipeline(r)
        /\ idx[r] >= 1
        /\ Len(rows[r][1]) = 2
        /\ rows[r][1][1] = <<>>
        /\ Len(calls[r]) >= 1
        /\ calls[r][1].text = <<>>
        /\ Len(results[r]) >= 1
        /\ results[r][1].Review = <<>>

\* C3 as stated: a request whose classification and CSV write succeeded
\* never aborts, whether the upload succeeded or failed: process_csv returns
\* the path, and the request ends with the three images saved and their
\* URLs in the response.
C3_Original ==
    \A r \in Req :
        (InPipeline(r) /\ ~svcFailed[r]) =>
            /\ pc[r] # "failed"
            /\ pc[r] \in {"viz", "bar", "pie", "word", "done"} => retPath[r] = CsvFilePath(r)
            /\ pc[r] = "done" =>
                   /\ response[r] = ChartsPage
                   /\ DOMAIN static = {BarImage, PieImage, WordImage}

\* C4 as stated: after process_csv wrote the CSV of an empty results list,
\* the file holds the header row Review,Sentiment and no data row.
C4_Original ==
    \A r \in Req :
        (pc[r] \in {"upload", "viz"} /\ results[r] = <<>>) =>
            /\ fs[CsvFilePath(r)].header = <<"Review", "Sentiment">>
            /\ fs[CsvFilePath(r)].lines = <<>>

\* the CSV the request's read_csv read has no Sentiment column (one request
\* at a time: the file is as it was read)
ReadWithoutSentiment(r) ==
    /\ readFrom[r] # NotRead
    /\ "Sentiment" \notin Range(fs[retPath[r]].header)

\* C5: when the CSV read by visualize_sentiment_trends has no Sentiment
\* column, the call raises before any chart is drawn, the request fails with
\* that exception, no static image is written or overwritten and no response
\* with image URLs is returned.
C5_MissingSentimentFails ==
    \A r \in Req :
        ReadWithoutSentiment(r) =>
            /\ pc[r] = "failed"
            /\ error[r] \in {"EmptyDataError", "ValueError"}
            /\ charts[r] = NoCharts
            /\ response[r] = ServerError
            /\ static = snap[r].static
            /\ \A n \in DOMAIN imgBy : imgBy[n] # r

\* C5: a request read a CSV without Sentiment column while an earlier
\* request's images were in the static directory
C5_Witness ==
    \E r \in Req :
        /\ ReadWithoutSentiment(r)
        /\ DOMAIN static = {BarImage, PieImage, WordImage}

\* the POST carries a file whose name ends in .csv
PostsCsv(r) ==
    /\ req[r].method = "POST"
    /\ req[r].files # <<>>
    /\ LET name == req[r].files[1].filename
       IN  Len(name) >= 4 /\ SubSeq(name, Len(name) - 3, Len(name)) = <<".", "c", "s", "v">>

\* C6: a POST without a file whose name ends in .csv never runs the
\* pipeline: it is answered 400 'No file part' without the field, 400 'No
\* selected file' with an empty file name and the bare form page otherwise;
\* no classifier call is made, no upload attempted, and the results CSV, the
\* bucket and the static images stay as they were.
C6_NoPipelineWithoutCsv ==
    \A r \in Req :
        (pc[r] \notin {"idle", "route"} /\ req[r].method = "POST" /\ ~PostsCsv(r)) =>
            /\ pc[r] = "done"
            /\ response[r] =
                   IF req[r].files = <<>> THEN BadRequest("No file part")
                   ELSE IF req[r].files[1].filename = <<>> THEN BadRequest("No selected file")
                   ELSE FormPage
            /\ response[r].images = <<>>
            /\ calls[r] = <<>>
            /\ uploads[r] = 0
            /\ charts[r] = NoCharts
            /\ StoresUnchanged(r)

\* C6: a POST of a file named csv, without the dot, that holds a review was
\* answered with the bare form while an earlier request's files were there
C6_Witness ==
    \E r \in Req :
        /\ pc[r] = "done"
        /\ req[r].method = "POST"
        /\ req[r].files # <<>>
        /\ req[r].files[1].filename = <<"c", "s", "v">>
        /\ ParseUpload(req[r].files[1].content) # <<>>
        /\ response[r] = FormPage
        /\ DOMAIN fs # {}
        /\ DOMAIN static # {}

RECURSIVE SumSeq(_)
SumSeq(s) == IF s = <<>> THEN 0 ELSE s[1] + SumSeq(Tail(s))

\* C7: the counts of the bar chart and of the pie chart of a results list
\* written by process_csv are the same, hold one entry per distinct
\* Sentiment value, each with its number of records, and sum to the number
\* of records.
C7_CategoryCountsSumToTotal ==
    \A r \in Req :
        charts[r] # NoCharts =>
            LET bar        == charts[r][1].bar
                pie        == charts[r][1].pie
                sentiments == [i \in DOMAIN results[r] |-> results[r][i].Sentiment]
            IN  /\ bar.x = pie.labels
                /\ bar.y = pie.x
                /\ Len(bar.x) = Len(bar.y)
                /\ Range(bar.x) = Range(sentiments)
                /\ Len(bar.x) = Cardinality(Range(sentiments))
                /\ \A i \in DOMAIN bar.x :
                       bar.y[i] = Cardinality({j \in DOMAIN sentiments : sentiments[j] = bar.x[i]})
                /\ SumSeq(bar.y) = Len(results[r])

\* C7: the charts of two records with the same Sentiment
C7_Witness ==
    \E r \in Req :
        /\ charts[r] # NoCharts
        /\ Len(results[r]) = 2
        /\ charts[r][1].bar.y = <<2>>

\* the whitespace-separated tokens of the Review texts, review by review
RECURSIVE TokensOf(_)
TokensOf(texts) ==
    IF texts = <<>> THEN <<>>
    ELSE SelectSeq(SplitOn(texts[1], " "), LAMBDA t : Len(t) > 0) \o TokensOf(Tail(texts))

FirstAt(s, v) == CHOOSE i \in DOMAIN s : s[i] = v /\ \A j \in 1..(i - 1) : s[j] # v

\* C8: the word-frequency view of the Review texts has min(10, number of
\* distinct tokens) entries, each a distinct token with its number of
\* occurrences in all reviews, in non-increasing order of count, equal counts
\* in order of first occurrence, and no token left out has a higher count
\* than one that is in.
C8_TopTenWords ==
    \A r \in Req :
        charts[r] # NoCharts =>
            LET word   == charts[r][1].word
                tokens == TokensOf([i \in DOMAIN results[r] |-> results[r][i].Review])
            IN  /\ Len(word.x) = Len(word.y)
                /\ Len(word.x) <= 10
                /\ Len(word.x) = Min(10, Cardinality(Range(tokens)))
                /\ \A i \in DOMAIN word.x :
                       /\ word.x[i] \in Range(tokens)
                       /\ word.y[i] = Cardinality({j \in DOMAIN tokens : tokens[j] = word.x[i]})
                /\ \A i, j \in DOMAIN word.x :
                       i < j =>
                           /\ word.x[i] # word.x[j]
                           /\ word.y[i] >= word.y[j]
                           /\ word.y[i] = word.y[j] =>
                                  FirstAt(tokens, word.x[i]) < FirstAt(tokens, word.x[j])
                /\ \A t \in Range(tokens) \ Range(word.x) :
                       \A i \in DOMAIN word.x :
                           Cardinality({j \in DOMAIN tokens : tokens[j] = t}) <= word.y[i]

\* C8: the view of reviews with more than ten distinct tokens, one of them
\* more frequent than the others though it occurs after some of them
C8_Witness ==
    \E r \in Req :
        /\ charts[r] # NoCharts
        /\ LET word   == charts[r][1].word
               tokens == TokensOf([i \in DOMAIN results[r] |-> results[r][i].Review])
           IN  /\ Cardinality(Range(tokens)) > 10
               /\ Len(word.x) = 10
               /\ word.y[1] > word.y[2]
               /\ word.y[2] = word.y[3]
               /\ FirstAt(tokens, word.x[1]) > FirstAt(tokens, word.x[2])

\* what visualize_sentiment_trends gives on the CSV of a results list
OutcomeOf(rs) == VisualizeFile(ToCsv(DataFrame(rs)))

\* C9: the CSV has one fixed name for all requests, so the charts (or the
\* error) of a request are those of the results list of whichever request
\* wrote the CSV last before this request read it, its own or not.
C9_ChartsOfLastWriter ==
    \A r \in Req :
        readFrom[r] # NotRead =>
            /\ readFrom[r][1] \in Req
            /\ charts[r] = OutcomeOf(results[readFrom[r][1]]).charts
            /\ OutcomeOf(results[readFrom[r][1]]).err # "none" =>
                   (pc[r] = "failed" /\ error[r] = OutcomeOf(results[readFrom[r][1]]).err)

\* C9: request a's charts were computed from the results list request b
\* wrote, and are not the charts of a's own results list
C9_Witness ==
    \E a, b \in Req :
        /\ a # b
        /\ readFrom[a] = <<b>>
        /\ charts[a] # NoCharts
        /\ OutcomeOf(results[a]).err = "none"
        /\ charts[a] # OutcomeOf(results[a]).charts

\* both requests have finished and the three static images do not all come
\* from the same request
MixedImages ==
    /\ \A r \in Req : pc[r] = "done"
    /\ DOMAIN imgBy = {BarImage, PieImage, WordImage}
    /\ \E m, n \in DOMAIN imgBy : imgBy[m] # imgBy[n]

====
